---------------------------- MODULE Spec2Model ----------------------------
(***************************************************************************)
(* cargo-min: the dependency extraction and mutation engine                *)
(* (src/src/dependencies.rs) and its caller (src/src/main.rs).             *)
(*                                                                         *)
(* A manifest is a toml_edit Document.  fetch_dependencies walks one       *)
(* dependency table and returns, per entry, a Version handle that borrows  *)
(* the text cell (Formatted<String>) holding the version literal.  A       *)
(* handle is read with get, changed with set, and writes its cell back     *)
(* when it is dropped, if its changed flag is set.                         *)
(*                                                                         *)
(* Text is a sequence of one-character strings.  The alphabet is the       *)
(* decimal digits, "." and "^"; pre-release and build metadata ("-", "+")  *)
(* are outside the alphabet, so a semantic version is major.minor.patch.   *)
(***************************************************************************)
EXTENDS Naturals, Sequences, FiniteSets

VARIABLES
    document,   \* the toml_edit Document: group name -> top-level item
    original,   \* history: the document as it was parsed
    result,     \* what fetch_dependencies returned: None, Ok, Err or Panic
    deps,       \* the Vec<Dependency> returned by fetch, handles included
    fetched,    \* the table name fetch was called with ("" before the call)
    pc,         \* position of main ("client" when the engine is used directly)
    file,       \* the manifest file on disk: Original, Truncated or Written
    backup,     \* whether Cargo.toml.old has been written
    written     \* the document that was serialized into the file

vars == <<document, original, result, deps, fetched, pc, file, backup, written>>

----------------------------------------------------------------------------
(* Bounds *)

\* The largest number of entries of a dependency table.
MaxEntries == 2

----------------------------------------------------------------------------
(* Text and semantic versions *)

Digits == <<"0", "1", "2", "3", "4", "5", "6", "7", "8", "9">>

IsDigit(c) == \E d \in 1..Len(Digits) : Digits[d] = c

DigitValue(c) == (CHOOSE d \in 1..Len(Digits) : Digits[d] = c) - 1

\* The length of the longest prefix of digits of text from position i on.
RECURSIVE DigitRun(_, _)
DigitRun(text, i) ==
    IF i <= Len(text) /\ IsDigit(text[i]) THEN 1 + DigitRun(text, i + 1) ELSE 0

\* The number written by the digits text[i .. i+n-1].
RECURSIVE DigitsToNat(_, _, _)
DigitsToNat(text, i, n) ==
    IF n = 0 THEN 0
    ELSE 10 * DigitsToNat(text, i, n - 1) + DigitValue(text[i + n - 1])

\* semver's numeric identifier at position i: one or more digits, no leading
\* zero unless the number is 0 itself.
NumericIdentifier(text, i) ==
    LET n == DigitRun(text, i) IN
    IF n = 0 THEN
        [ok |-> FALSE,
         error |-> IF i > Len(text) THEN "UnexpectedEnd" ELSE "UnexpectedChar"]
    ELSE IF n > 1 /\ text[i] = "0" THEN [ok |-> FALSE, error |-> "LeadingZero"]
    ELSE [ok |-> TRUE, value |-> DigitsToNat(text, i, n), next |-> i + n]

\* The "." between two components.
Dot(text, i) ==
    IF i > Len(text) THEN [ok |-> FALSE, error |-> "UnexpectedEnd"]
    ELSE IF text[i] # "." THEN [ok |-> FALSE, error |-> "UnexpectedChar"]
    ELSE [ok |-> TRUE, next |-> i + 1]

\* The end of the text after the patch number.
ParseEnd(text, major, minor, patch) ==
    IF ~patch.ok THEN [ok |-> FALSE, error |-> patch.error]
    ELSE IF patch.next <= Len(text) THEN [ok |-> FALSE, error |-> "UnexpectedCharAfter"]
    ELSE [ok |-> TRUE,
          version |-> [major |-> major.value, minor |-> minor.value,
                       patch |-> patch.value]]

ParsePatch(text, major, minor, dot) ==
    IF ~dot.ok THEN [ok |-> FALSE, error |-> dot.error]
    ELSE ParseEnd(text, major, minor, NumericIdentifier(text, dot.next))

ParseDot2(text, major, minor) ==
    IF ~minor.ok THEN [ok |-> FALSE, error |-> minor.error]
    ELSE ParsePatch(text, major, minor, Dot(text, minor.next))

ParseMinor(text, major, dot) ==
    IF ~dot.ok THEN [ok |-> FALSE, error |-> dot.error]
    ELSE ParseDot2(text, major, NumericIdentifier(text, dot.next))

ParseDot1(text, major) ==
    IF ~major.ok THEN [ok |-> FALSE, error |-> major.error]
    ELSE ParseMinor(text, major, Dot(text, major.next))

\* semver::Version::from_str: major "." minor "." patch and nothing after it.
VersionFromStr(text) ==
    IF Len(text) = 0 THEN [ok |-> FALSE, error |-> "Empty"]
    ELSE ParseDot1(text, NumericIdentifier(text, 1))

\* The decimal digits of a natural number.
RECURSIVE NatToText(_)
NatToText(n) ==
    IF n < 10 THEN <<Digits[n + 1]>>
    ELSE NatToText(n \div 10) \o <<Digits[(n % 10) + 1]>>

\* semver::Version's Display: the canonical text of a version.
VersionToString(v) ==
    NatToText(v.major) \o <<".">> \o NatToText(v.minor) \o <<".">> \o NatToText(v.patch)

SemVer(major, minor, patch) == [major |-> major, minor |-> minor, patch |-> patch]


----------------------------------------------------------------------------
(* The document: toml_edit's Item, Value and Formatted<String> *)

None == [some |-> FALSE]

Some(x) == [some |-> TRUE, raw |-> x]

\* toml_edit's Formatted::new: the value alone, with no representation and
\* the default (empty) decor.
FormattedNew(text) ==
    [value |-> text, repr |-> None, decor |-> [prefix |-> None, suffix |-> None]]

\* A string cell as the parser builds it: the literal with its quotes as its
\* representation, the text around it as its decor.
ParsedCell(text, quote, suffix) ==
    [value |-> text,
     repr |-> Some(<<quote>> \o text \o <<quote>>),
     decor |-> [prefix |-> Some(" "), suffix |-> Some(suffix)]]

\* Document::to_string, for one string cell: the representation, or a basic
\* (double-quoted) string when there is none, between the decor, or the
\* default decor of a table value (" " before, nothing after) when unset.
CellToString(cell) ==
    [prefix |-> IF cell.decor.prefix.some THEN cell.decor.prefix.raw ELSE " ",
     literal |-> IF cell.repr.some THEN cell.repr.raw
                 ELSE <<"\"">> \o cell.value \o <<"\"">>,
     suffix |-> IF cell.decor.suffix.some THEN cell.decor.suffix.raw ELSE ""]

\* The quote character a serialized cell is written with.
QuoteOf(cell) == CellToString(cell).literal[1]

StringValue(cell) == [kind |-> "String", cell |-> cell]

PlainValue(kind) == [kind |-> kind]

\* An inline table, of which only the `version` field matters: absent, or a value.
InlineTable(version) == [kind |-> "InlineTable", version |-> version]

ValueItem(value) == [item |-> "Value", value |-> value]

TableItem(entries) == [item |-> "Table", entries |-> entries]

PlainItem(kind) == [item |-> kind]

\* Document::get_mut finds no item of that name.
Absent == [item |-> "Absent"]

STANDARD == "dependencies"

DEV == "dev-dependencies"

\* DependencyType
DependencyTypes == {"Standard", "Dev"}

GroupNames == {STANDARD, DEV}

\* The keys of a table in source order (unique within a table).
Keys == <<"clap", "semver", "thiserror", "toml_edit", "tracing">>

value_to_type(value) ==
    CASE value.kind = "String" -> "String"
      [] value.kind = "Integer" -> "Integer"
      [] value.kind = "Float" -> "Float"
      [] value.kind = "Boolean" -> "Boolean"
      [] value.kind = "Datetime" -> "Datetime"
      [] value.kind = "Array" -> "Array"
      [] value.kind = "InlineTable" -> "InlineTable"

item_to_type(item) ==
    CASE item.item = "None" -> "None"
      [] item.item = "Value" -> "Value"
      [] item.item = "Table" -> "Table"
      [] item.item = "ArrayOfTables" -> "ArrayOfTables"

----------------------------------------------------------------------------
(* The inputs: the documents the model starts from *)

Text037 == <<"0", ".", "3", ".", "7">>
Text259 == <<"2", ".", "5", ".", "9">>
Text004 == <<"0", ".", "0", ".", "4">>
Text100 == <<"1", ".", "0", ".", "0">>
TextReq == <<"^", "1", ".", "2">>
TextLeadingZero == <<"0", "1", ".", "2", ".", "3">>

SampleTexts == {Text037, Text259, Text004, Text100, TextReq, TextLeadingZero}

\* The texts that also occur as literal (single-quoted) strings.
LiteralTexts == {Text259, Text100}

\* A cell is a basic string with nothing after it, or a literal string followed
\* by a comment (a bare entry) or by a space (a field of an inline table).
SampleCells(inline) ==
    {ParsedCell(t, "\"", "") : t \in SampleTexts}
    \cup {ParsedCell(t, "'", IF inline THEN " " ELSE " # pin") : t \in LiteralTexts}

SampleEntries ==
    {ValueItem(StringValue(c)) : c \in SampleCells(FALSE)}
    \cup {ValueItem(InlineTable(Some(StringValue(c)))) : c \in SampleCells(TRUE)}
    \cup {ValueItem(InlineTable(None)),
          ValueItem(InlineTable(Some(PlainValue("Integer")))),
          ValueItem(InlineTable(Some(InlineTable(None)))),
          ValueItem(PlainValue("Integer")),
          ValueItem(PlainValue("Boolean")),
          ValueItem(PlainValue("Array")),
          TableItem(<<>>),
          PlainItem("ArrayOfTables")}

\* The tables of n entries: the keys in source order, any sample entry each.
SampleTables(n) ==
    {[i \in 1..n |-> [key |-> Keys[i], item |-> f[i]]] : f \in [1..n -> SampleEntries]}

SampleTopItems ==
    {TableItem(t) : t \in UNION {SampleTables(n) : n \in 0..MaxEntries}}
    \cup {ValueItem(PlainValue("Integer")), PlainItem("ArrayOfTables"), Absent}

\* The versions a client passes to set.
SetVersions == {SemVer(1, 0, 0), SemVer(0, 3, 7)}


----------------------------------------------------------------------------
(* Version: the handle on one text cell *)

\* The place of a text cell in the document: the &mut Formatted<String> a
\* handle holds.  The cell is the entry itself, or the `version` field of the
\* entry's inline table.
CellRef(group, index, inline) == [group |-> group, index |-> index, inline |-> inline]

CellAt(doc, ref) ==
    LET value == doc[ref.group].entries[ref.index].item.value IN
    IF ref.inline THEN value.version.raw.cell ELSE value.cell

\* *self.value = cell
AssignCell(doc, ref, cell) ==
    IF ref.inline
    THEN [doc EXCEPT ![ref.group].entries[ref.index].item.value.version.raw.cell = cell]
    ELSE [doc EXCEPT ![ref.group].entries[ref.index].item.value.cell = cell]

\* Version::new
VersionNew(ref, cell) ==
    LET parsed == VersionFromStr(cell.value) IN
    IF parsed.ok
    THEN [ok |-> TRUE,
          handle |-> [value |-> ref, version |-> parsed.version, changed |-> FALSE]]
    ELSE [ok |-> FALSE, error |-> parsed.error]

\* Version::get
VersionGet(handle) == handle.version

\* A set that forgets the flag.
VersionSetNoFlag(handle, version) == [handle EXCEPT !.version = version]

\* Version::set
VersionSet(handle, version) ==
    IF version # handle.version
    THEN [handle EXCEPT !.changed = TRUE, !.version = version]
    ELSE handle

\* A drop that writes back whether or not the handle changed.
VersionDropAlways(doc, handle) ==
    AssignCell(doc, handle.value, FormattedNew(VersionToString(handle.version)))

\* Drop for Version: the document after the handle is dropped.
VersionDrop(doc, handle) ==
    IF handle.changed
    THEN AssignCell(doc, handle.value, FormattedNew(VersionToString(handle.version)))
    ELSE doc

\* Dropping a Vec of dependencies drops each handle, front to back.
RECURSIVE DropAll(_, _)
DropAll(doc, dependencies) ==
    IF Len(dependencies) = 0 THEN doc
    ELSE DropAll(VersionDrop(doc, Head(dependencies).version), Tail(dependencies))

----------------------------------------------------------------------------
(* fetch_dependencies *)

GroupOf(ty) == IF ty = "Standard" THEN STANDARD ELSE DEV

Ok(dependency) == [kind |-> "Ok", dependency |-> dependency]

Err(error) == [kind |-> "Err", err |-> error]

\* todo!(): the thread panics.
Todo == [kind |-> "Panic"]

Dependency(key, handle) == [name |-> key, version |-> handle, live |-> TRUE]

\* The handle for a string cell, or SemverParse.
DependencyFromCell(key, ref, cell) ==
    LET new == VersionNew(ref, cell) IN
    IF new.ok THEN Ok(Dependency(key, new.handle))
    ELSE Err([tag |-> "SemverParse", key |-> key, error |-> new.error])

\* The closure mapped over the table's entries.
ClassifyEntry(group, index, entry) ==
    LET key == entry.key
        item == entry.item
    IN
    IF item.item = "Value" THEN
        LET value == item.value IN
        IF value.kind = "String" THEN
            DependencyFromCell(key, CellRef(group, index, FALSE), value.cell)
        ELSE IF value.kind = "InlineTable" THEN
            IF ~value.version.some THEN Err([tag |-> "MissingVersionKey", key |-> key])
            ELSE IF value.version.raw.kind = "String" THEN
                DependencyFromCell(key, CellRef(group, index, TRUE), value.version.raw.cell)
            ELSE Err([tag |-> "UnexpectedVersionType", key |-> key,
                      ty |-> value_to_type(value.version.raw)])
        ELSE Err([tag |-> "UnexpectedVersionType", key |-> key,
                  ty |-> value_to_type(value)])
    ELSE IF item.item = "Table" THEN Todo
    ELSE Err([tag |-> "UnexpectedDependencyItem", key |-> key, ty |-> item_to_type(item)])

\* A collect that yields the dependencies last to first.
RECURSIVE CollectReversed(_, _, _, _)
CollectReversed(group, entries, index, acc) ==
    IF index > Len(entries) THEN [kind |-> "Ok", deps |-> acc, dropped |-> <<>>]
    ELSE
        LET r == ClassifyEntry(group, index, entries[index]) IN
        IF r.kind = "Ok"
        THEN CollectReversed(group, entries, index + 1, <<r.dependency>> \o acc)
        ELSE IF r.kind = "Err"
        THEN [kind |-> "Err", err |-> r.err, deps |-> <<>>, dropped |-> acc]
        ELSE [kind |-> "Panic", deps |-> <<>>, dropped |-> acc]

\* collect::<Result<Vec<_>, _>>(): the entries in order, up to the first that
\* is no Ok; the dependencies built before it are dropped.
RECURSIVE Collect(_, _, _, _)
Collect(group, entries, index, acc) ==
    IF index > Len(entries) THEN [kind |-> "Ok", deps |-> acc, dropped |-> <<>>]
    ELSE
        LET r == ClassifyEntry(group, index, entries[index]) IN
        IF r.kind = "Ok" THEN Collect(group, entries, index + 1, Append(acc, r.dependency))
        ELSE IF r.kind = "Err"
        THEN [kind |-> "Err", err |-> r.err, deps |-> <<>>, dropped |-> acc]
        ELSE [kind |-> "Panic", deps |-> <<>>, dropped |-> acc]

fetch_dependencies(doc, ty) ==
    LET dependency_group == GroupOf(ty)
        dependencies == doc[dependency_group]
    IN
    IF dependencies = Absent
    THEN [kind |-> "Err", err |-> [tag |-> "MissingDependencyItem"],
          deps |-> <<>>, dropped |-> <<>>]
    ELSE IF dependencies.item # "Table"
    THEN [kind |-> "Err",
          err |-> [tag |-> "UnexpectedDependenciesItem", ty |-> item_to_type(dependencies)],
          deps |-> <<>>, dropped |-> <<>>]
    ELSE Collect(dependency_group, dependencies.entries, 1, <<>>)

\* What the caller holds after the call.
ResultOf(r) ==
    IF r.kind = "Err" THEN [kind |-> "Err", err |-> r.err] ELSE [kind |-> r.kind]

----------------------------------------------------------------------------
(* The engine used directly: fetch, then get, set and drop in any order *)

InitDocument ==
    /\ \E g \in GroupNames : \E top \in SampleTopItems :
          document = [n \in GroupNames |-> IF n = g THEN top ELSE Absent]
    /\ original = document
    /\ result = [kind |-> "None"]
    /\ deps = <<>>
    /\ fetched = ""
    /\ file = "Original"
    /\ backup = FALSE
    /\ written = None

Init == InitDocument /\ pc = "client"

Fetch(ty) ==
    /\ pc = "client"
    /\ result.kind = "None"
    /\ LET r == fetch_dependencies(document, ty) IN
          /\ result' = ResultOf(r)
          /\ deps' = r.deps
          /\ document' = DropAll(document, r.dropped)
    /\ fetched' = GroupOf(ty)
    /\ UNCHANGED <<original, pc, file, backup, written>>

Set(i, version) ==
    /\ pc = "client"
    /\ i \in DOMAIN deps
    /\ deps[i].live
    /\ deps' = [deps EXCEPT ![i].version = VersionSet(@, version)]
    /\ UNCHANGED <<document, original, result, fetched, pc, file, backup, written>>

Drop(i) ==
    /\ pc = "client"
    /\ i \in DOMAIN deps
    /\ deps[i].live
    /\ document' = VersionDrop(document, deps[i].version)
    /\ deps' = [deps EXCEPT ![i].live = FALSE]
    /\ UNCHANGED <<original, result, fetched, pc, file, backup, written>>

Next ==
    \/ \E ty \in DependencyTypes : Fetch(ty)
    \/ \E i \in 1..MaxEntries : \E version \in SetVersions : Set(i, version)
    \/ \E i \in 1..MaxEntries : Drop(i)

Spec == Init /\ [][Next]_vars


----------------------------------------------------------------------------
(* main: back up, read, parse, fetch, minimize every dependency, write back *)

\* A policy without the major-zero case.
MinimizeMinorAndPatch(version) == [version EXCEPT !.minor = 0, !.patch = 0]

\* The loop body's assignments to the version (main.rs: `if version.major == 0`).
Minimize(version) ==
    IF version.major = 0
    THEN [version EXCEPT !.patch = 0]
    ELSE [version EXCEPT !.minor = 0, !.patch = 0]

\* main assigns through `dependency.version.get_mut()`.  Version defines get
\* and set only: what get_mut does to the changed flag is not in the source,
\* so it either leaves the flag alone or sets it (marks).  It cannot compare
\* the version before and after, since the caller assigns after it returned.
GetMutAssign(handle, version, marks) ==
    [handle EXCEPT !.version = version, !.changed = @ \/ marks]

\* The index of the dependency the for loop takes next.
NextDependency == CHOOSE i \in DOMAIN deps : deps[i].live /\ \A j \in 1..(i - 1) : ~deps[j].live

InitMain == InitDocument /\ pc = "backup"

\* A failed .expect("TODO"): the thread panics.  No step that can fail runs
\* while a dependency is alive.
Panicked ==
    /\ pc' = "panicked"
    /\ UNCHANGED <<document, original, result, deps, fetched, file, backup, written>>

MainBackup ==
    /\ pc = "backup"
    /\ \/ /\ backup' = TRUE
          /\ pc' = "open"
          /\ UNCHANGED <<document, original, result, deps, fetched, file, written>>
       \/ Panicked

MainOpen ==
    /\ pc = "open"
    /\ \/ /\ pc' = "read"
          /\ UNCHANGED <<document, original, result, deps, fetched, file, backup, written>>
       \/ Panicked

MainRead ==
    /\ pc = "read"
    /\ \/ /\ pc' = "parse"
          /\ UNCHANGED <<document, original, result, deps, fetched, file, backup, written>>
       \/ Panicked

\* raw.parse(): the document of the initial state, or a parse error.
MainParse ==
    /\ pc = "parse"
    /\ \/ /\ pc' = "fetch"
          /\ UNCHANGED <<document, original, result, deps, fetched, file, backup, written>>
       \/ Panicked

\* A main that goes on with no dependencies when fetch fails.
MainFetchOrDefault ==
    /\ pc = "fetch"
    /\ LET r == fetch_dependencies(document, "Standard") IN
          /\ result' = ResultOf(r)
          /\ deps' = r.deps
          /\ document' = DropAll(document, r.dropped)
          /\ pc' = "loop"
    /\ fetched' = GroupOf("Standard")
    /\ UNCHANGED <<original, file, backup, written>>

MainFetch ==
    /\ pc = "fetch"
    /\ LET r == fetch_dependencies(document, "Standard") IN
          /\ result' = ResultOf(r)
          /\ deps' = r.deps
          /\ document' = DropAll(document, r.dropped)
          /\ pc' = IF r.kind = "Ok" THEN "loop" ELSE "panicked"
    /\ fetched' = GroupOf("Standard")
    /\ UNCHANGED <<original, file, backup, written>>

\* One iteration of the for loop; the dependency is dropped at its end.
MainMinimize ==
    /\ pc = "loop"
    /\ \E i \in DOMAIN deps : deps[i].live
    /\ \E marks \in BOOLEAN :
          LET i == NextDependency
              handle == GetMutAssign(deps[i].version, Minimize(deps[i].version.version), marks)
          IN
          /\ deps' = [deps EXCEPT ![i].version = handle, ![i].live = FALSE]
          /\ document' = VersionDrop(document, handle)
    /\ UNCHANGED <<original, result, fetched, pc, file, backup, written>>

\* root_toml.set_len(0)
MainSetLen ==
    /\ pc = "loop"
    /\ \A i \in DOMAIN deps : ~deps[i].live
    /\ \/ /\ file' = "Truncated"
          /\ pc' = "rewind"
          /\ UNCHANGED <<document, original, result, deps, fetched, backup, written>>
       \/ Panicked

MainRewind ==
    /\ pc = "rewind"
    /\ \/ /\ pc' = "write"
          /\ UNCHANGED <<document, original, result, deps, fetched, file, backup, written>>
       \/ Panicked

\* root_toml.write_all(document.to_string().as_bytes())
MainWrite ==
    /\ pc = "write"
    /\ \/ /\ file' = "Written"
          /\ written' = Some(document)
          /\ pc' = "done"
          /\ UNCHANGED <<document, original, result, deps, fetched, backup>>
       \/ Panicked

NextMain ==
    \/ MainBackup
    \/ MainOpen
    \/ MainRead
    \/ MainParse
    \/ MainFetch
    \/ MainMinimize
    \/ MainSetLen
    \/ MainRewind
    \/ MainWrite

SpecMain == InitMain /\ [][NextMain]_vars


----------------------------------------------------------------------------
(* What the properties speak of *)

\* The text cell handle i borrows, as parsed and as it is now.
OriginalCell(i) == CellAt(original, deps[i].version.value)

CurrentCell(i) == CellAt(document, deps[i].version.value)

\* The version parsed from the cell when handle i was created.
OriginalVersion(i) == VersionFromStr(OriginalCell(i).value).version

\* The held version of handle i.
Held(i) == VersionGet(deps[i].version)

\* The table fetch was called on.
FetchedEntries == original[fetched].entries

FetchedTable == fetched # "" /\ original[fetched].item = "Table"

\* The two supported shapes: a bare string, an inline table with a string
\* `version` field.
IsBareString(entry) ==
    entry.item.item = "Value" /\ entry.item.value.kind = "String"

IsInlineVersion(entry) ==
    /\ entry.item.item = "Value"
    /\ entry.item.value.kind = "InlineTable"
    /\ entry.item.value.version.some
    /\ entry.item.value.version.raw.kind = "String"

VersionText(entry) ==
    IF IsBareString(entry) THEN entry.item.value.cell.value
    ELSE entry.item.value.version.raw.cell.value

\* A text of three dot-separated numbers without leading zeros.
RECURSIVE SplitDots(_)
SplitDots(text) ==
    IF \A k \in 1..Len(text) : text[k] # "." THEN <<text>>
    ELSE LET d == CHOOSE k \in 1..Len(text) : text[k] = "." /\ \A j \in 1..(k - 1) : text[j] # "."
         IN <<SubSeq(text, 1, d - 1)>> \o SplitDots(SubSeq(text, d + 1, Len(text)))

IsNumber(part) ==
    /\ Len(part) > 0
    /\ \A k \in 1..Len(part) : IsDigit(part[k])
    /\ (Len(part) > 1 => part[1] # "0")

IsSemVerText(text) ==
    LET parts == SplitDots(text) IN
    Len(parts) = 3 /\ \A k \in 1..3 : IsNumber(parts[k])

GoodEntry(entry) ==
    (IsBareString(entry) \/ IsInlineVersion(entry)) /\ IsSemVerText(VersionText(entry))

HasBadEntry == FetchedTable /\ \E k \in DOMAIN FetchedEntries : ~GoodEntry(FetchedEntries[k])

\* The first entry, in table order, that is unsupported or unparsable.
FirstBad ==
    CHOOSE k \in DOMAIN FetchedEntries :
        ~GoodEntry(FetchedEntries[k]) /\ \A j \in 1..(k - 1) : GoodEntry(FetchedEntries[j])

Returned == result.kind # "None"


----------------------------------------------------------------------------
(* Properties *)

\* C1 as stated: a handle is dirty exactly when its held version differs from
\* the version parsed when it was created.
C1_DirtyIffDiffers ==
    \A i \in DOMAIN deps :
        deps[i].version.changed <=> (Held(i) # OriginalVersion(i))

\* C1, amended: a handle whose held version differs from the version parsed at
\* its creation is dirty (a handle that is not dirty holds the parsed
\* version); a dirty handle may hold the parsed version again.
C1_DiffersImpliesDirty ==
    \A i \in DOMAIN deps :
        (Held(i) # OriginalVersion(i)) => deps[i].version.changed

\* A handle that was set to another version and back to the parsed one.
C1_Witness ==
    \E i \in DOMAIN deps :
        deps[i].live /\ deps[i].version.changed /\ Held(i) = OriginalVersion(i)

\* C2: on a table of well-formed entries, bare or inline, fetch returns Ok with
\* one dependency per key in table order, named by the key, holding the
\* version its entry's text writes, clean, and it changes no cell.
C2_FetchWellFormed ==
    [][(/\ ~Returned
        /\ Returned'
        /\ FetchedTable'
        /\ \A k \in DOMAIN FetchedEntries' : GoodEntry(FetchedEntries'[k]))
       => (/\ result'.kind = "Ok"
           /\ Len(deps') = Len(FetchedEntries')
           /\ \A k \in DOMAIN deps' :
                /\ deps'[k].name = FetchedEntries'[k].key
                /\ deps'[k].live
                /\ ~deps'[k].version.changed
                /\ VersionToString(VersionGet(deps'[k].version)) = VersionText(FetchedEntries'[k])
                /\ CellAt(document', deps'[k].version.value).value = VersionText(FetchedEntries'[k])
           /\ document' = document)]_vars

\* Fetch returned a bare-string entry and an inline-table entry.
C2_Witness ==
    /\ result.kind = "Ok"
    /\ Len(deps) >= 2
    /\ IsBareString(FetchedEntries[1])
    /\ IsInlineVersion(FetchedEntries[2])
    /\ \A k \in DOMAIN deps : deps[k].live /\ ~deps[k].version.changed
    /\ document = original

\* C3 as stated: when the first unsupported entry is a sub-table, fetch
\* returns an error naming its key; it does not panic.
C3_SubTableIsError ==
    (Returned /\ HasBadEntry /\ FetchedEntries[FirstBad].item.item = "Table")
    => (result.kind = "Err" /\ result.err.key = FetchedEntries[FirstBad].key)

\* C4 as stated: when the first unsupported entry is a plain value that is
\* neither a string nor an inline table, fetch returns the entry-shape error
\* with its key and kind.
C4_PlainValueIsEntryShapeError ==
    (/\ Returned
     /\ HasBadEntry
     /\ FetchedEntries[FirstBad].item.item = "Value"
     /\ FetchedEntries[FirstBad].item.value.kind \notin {"String", "InlineTable"})
    => (/\ result.kind = "Err"
        /\ result.err.tag = "UnexpectedDependencyItem"
        /\ result.err.key = FetchedEntries[FirstBad].key
        /\ result.err.ty = FetchedEntries[FirstBad].item.value.kind)

\* C5 as stated: when some entry is unsupported or unparsable, fetch returns
\* an error for the first such entry and no dependencies, and no cell of the
\* document has changed.
C5_FailFast ==
    (Returned /\ HasBadEntry)
    => (/\ result.kind = "Err"
        /\ result.err.key = FetchedEntries[FirstBad].key
        /\ deps = <<>>
        /\ document = original)

\* C6 as stated: once a dirty handle is released its cell holds the canonical
\* text of the held version and is serialized with the decor and the quotes it
\* had.
C6_ReleaseKeepsFormatting ==
    \A i \in DOMAIN deps :
        (~deps[i].live /\ deps[i].version.changed)
        => (/\ CurrentCell(i).value = VersionToString(Held(i))
            /\ CellToString(CurrentCell(i)).prefix = CellToString(OriginalCell(i)).prefix
            /\ CellToString(CurrentCell(i)).suffix = CellToString(OriginalCell(i)).suffix
            /\ QuoteOf(CurrentCell(i)) = QuoteOf(OriginalCell(i)))

\* C7: a step changes the document only by releasing a live, dirty handle, and
\* then only that handle's cell; a released handle is never live again, so a
\* cell is written at most once.
C7_WriteOnlyOnDirtyRelease ==
    [][/\ \A i \in DOMAIN deps :
            /\ i \in DOMAIN deps'
            /\ (~deps[i].live => ~deps'[i].live)
            /\ (CellAt(document', deps[i].version.value) # CellAt(document, deps[i].version.value))
               => (deps[i].live /\ ~deps'[i].live /\ deps[i].version.changed)
       /\ (document' # document)
          => \E i \in DOMAIN deps :
                deps[i].live /\ ~deps'[i].live /\ deps[i].version.changed]_vars

\* A dirty handle was released and its cell written, a clean one was released
\* and its cell left as parsed.
C7_Witness ==
    \E i, j \in DOMAIN deps :
        /\ ~deps[i].live /\ deps[i].version.changed
        /\ CurrentCell(i) = FormattedNew(VersionToString(Held(i)))
        /\ ~deps[j].live /\ ~deps[j].version.changed
        /\ CurrentCell(j) = OriginalCell(j)

\* C8 as stated: when main serializes the document every handle is released
\* and every fetched cell holds the canonical text of the minimized version.
C8_MinimizedCommitted ==
    (pc \in {"write", "done"})
    => \A i \in DOMAIN deps :
          /\ ~deps[i].live
          /\ CurrentCell(i).value = VersionToString(Minimize(OriginalVersion(i)))

\* C9 as stated: 0.3.7 minimizes to 0.3.0, 2.5.9 to 2.0.0, 0.0.4 to 0.0.4.
C9_BoundaryAsStated ==
    \A i \in DOMAIN deps :
        ~deps[i].live =>
            /\ (OriginalVersion(i) = SemVer(0, 3, 7) => Held(i) = SemVer(0, 3, 0))
            /\ (OriginalVersion(i) = SemVer(2, 5, 9) => Held(i) = SemVer(2, 0, 0))
            /\ (OriginalVersion(i) = SemVer(0, 0, 4) => Held(i) = SemVer(0, 0, 4))

\* C9, amended: 0.3.7 minimizes to 0.3.0, 2.5.9 to 2.0.0, 0.0.4 to 0.0.0.
C9_Boundary ==
    \A i \in DOMAIN deps :
        ~deps[i].live =>
            /\ (OriginalVersion(i) = SemVer(0, 3, 7) => Held(i) = SemVer(0, 3, 0))
            /\ (OriginalVersion(i) = SemVer(2, 5, 9) => Held(i) = SemVer(2, 0, 0))
            /\ (OriginalVersion(i) = SemVer(0, 0, 4) => Held(i) = SemVer(0, 0, 0))

\* main has minimized 0.0.4 and one of the two other versions.
C9_Witness ==
    /\ pc = "done"
    /\ \E i, j \in DOMAIN deps :
          /\ OriginalVersion(i) = SemVer(0, 0, 4)
          /\ OriginalVersion(j) \in {SemVer(0, 3, 7), SemVer(2, 5, 9)}
          /\ ~deps[i].live /\ ~deps[j].live

\* C10: the manifest file is truncated or written only after fetch returned Ok
\* and the loop released every dependency; when fetch fails, or a step before
\* it, main has panicked with the file as it was.
C10_NoWriteAfterError ==
    /\ (file # "Original" \/ written # None)
       => (result.kind = "Ok" /\ \A i \in DOMAIN deps : ~deps[i].live)
    /\ (result.kind \in {"Err", "Panic"})
       => (pc = "panicked" /\ file = "Original" /\ written = None)

\* main has panicked on a fetch error, after the backup, the file untouched.
C10_Witness ==
    /\ result.kind = "Err"
    /\ pc = "panicked"
    /\ backup
    /\ file = "Original"

=============================================================================
